---- MODULE Spec2Model ----
(***************************************************************************)
(* A model of the mapping backend (src/unnamed/part_000): one POST         *)
(* /api/map request, from validation through XSD flattening, the batched   *)
(* oracle calls, assembly, the by-score sort and the two renderers.        *)
(*                                                                         *)
(* JavaScript values are represented as follows.                           *)
(*   - strings are TLA+ strings; `undefined` is the string Undefined,      *)
(*     which no input uses as text;                                        *)
(*   - a qualified name "p:q:r" is kept as the sequence of its             *)
(*     ':'-separated segments, <<"p","q","r">>; an absent attribute is     *)
(*     the empty sequence;                                                 *)
(*   - a number is a record [k |-> "fin", n |-> hundredths],               *)
(*     [k |-> "inf", n |-> +1 or -1] or [k |-> "nan", n |-> 0].            *)
(***************************************************************************)
EXTENDS Integers, Sequences, FiniteSets, TLC

VARIABLES
  req,        \* the request: output_format, xsd_files, source_file, and the oracle's behaviour
  pc,         \* the handler's position
  fileIdx,    \* index of the XSD file being flattened (loop of line 243)
  gelIdx,     \* index of the next root element to walk (loop of line 97)
  rows,       \* parseXsdPaths' `rows` for the current file
  visits,     \* the paths of the elements walk() was called on for the current file, in call order
  stack,      \* the active calls of walk(), innermost last
  targetDict, \* the target dictionary
  sourceFields, \* Object.keys(sourceRows[0])
  i,          \* the batch loop's offset
  calls,      \* the batches handed to aoaiMapBatch so far, in call order
  inflight,   \* number of oracle calls issued and not yet returned
  reply,      \* what the last oracle call came back with
  results,    \* the handler's `results`
  bySource,   \* the by-source table
  byScore,    \* the by-score table
  res,        \* the HTTP response: status, message, report
  colorArg,   \* the score colorForScore is called with
  colorOut    \* the colours colorForScore has returned for it, in call order

vars == <<req, colorArg, colorOut, pc, fileIdx, gelIdx, rows, visits, stack, targetDict, sourceFields, i, calls,
          inflight, reply, results, bySource, byScore, res>>

----------------------------------------------------------------------------
(* Bounds of the model *)

\* Largest number of XSD files in the requests that vary the uploaded schemas.
MaxFiles == 2

\* Depth of nested walk() calls the engine's call stack holds before it throws RangeError.
StackLimit == 4

\* Largest number of full batches of source fields in one request.
MaxFull == 2

\* Largest number of source fields beyond the full batches.
MaxTail == 2

----------------------------------------------------------------------------
(* Sequence helpers *)

Undefined == "<undefined>"

Last(s) == s[Len(s)]

Range(s) == {s[k] : k \in 1..Len(s)}

RECURSIVE Flatten(_)
Flatten(ss) == IF ss = <<>> THEN <<>> ELSE Head(ss) \o Flatten(Tail(ss))

Min(a, b) == IF a < b THEN a ELSE b

Max(a, b) == IF a > b THEN a ELSE b

----------------------------------------------------------------------------
(* Schema flattener: parseXsdPaths *)

\* An element node as the XML parser delivers it.
El(name, type, min, max) ==
  [name |-> name, ref |-> <<>>, type |-> type, inline |-> <<>>, minOccurs |-> min, maxOccurs |-> max]

\* A complexType node: the group nodes under xs:sequence, xs:choice and xs:all,
\* each group the list of its xs:element children.
Ct(seqs, choices, alls) == [sequence |-> seqs, choice |-> choices, all |-> alls]

Inline(name, ct) ==
  [name |-> name, ref |-> <<>>, type |-> <<>>, inline |-> <<ct>>, minOccurs |-> Undefined, maxOccurs |-> Undefined]

Ref(qname) ==
  [name |-> "", ref |-> qname, type |-> <<>>, inline |-> <<>>, minOccurs |-> Undefined, maxOccurs |-> Undefined]

\* complexTypes[tname]: the loop of line 65 lets a later declaration of a name replace an earlier one
LookupType(cts, tname) ==
  LET hits == {k \in 1..Len(cts) : cts[k].name = tname}
  IN  IF hits = {} THEN <<>> ELSE <<cts[CHOOSE k \in hits : \A h \in hits : h <= k].ct>>

\* childElements(node)
childElements(node) ==
  Flatten(node.sequence) \o Flatten(node.choice) \o Flatten(node.all)

elNameOf(el) ==
  IF el.name # "" THEN el.name
  ELSE IF el.ref # <<>> THEN Last(el.ref) ELSE "(anon)"

pathStrOf(el, prefix) ==
  IF prefix # "" THEN prefix \o "/" \o elNameOf(el) ELSE elNameOf(el)

tnameOf(el) == IF el.type # <<>> THEN Last(el.type) ELSE ""

\* ct of walk(): a sequence holding the resolved complex type, empty for null
ctOf(cts, el) ==
  IF tnameOf(el) # "" /\ LookupType(cts, tnameOf(el)) # <<>> THEN LookupType(cts, tnameOf(el))
  ELSE el.inline

kidsOf(cts, el) == IF ctOf(cts, el) = <<>> THEN <<>> ELSE childElements(ctOf(cts, el)[1])

\* a leaf test that looks only at whether a complex type was resolved
isLeaf_unresolved(cts, el) == ctOf(cts, el) = <<>>

\* line 91: !ct || !kids.length
isLeaf(cts, el) == ctOf(cts, el) = <<>> \/ kidsOf(cts, el) = <<>>

leafRow(name, cts, el, prefix) ==
  [schema    |-> name,
   path      |-> pathStrOf(el, prefix),
   name      |-> elNameOf(el),
   type      |-> IF tnameOf(el) # "" THEN tnameOf(el)
                 ELSE IF ctOf(cts, el) # <<>> THEN "complexType" ELSE "simpleType",
   minOccurs |-> IF el.minOccurs = Undefined THEN "1" ELSE el.minOccurs,
   maxOccurs |-> IF el.maxOccurs = Undefined THEN "1" ELSE el.maxOccurs]

\* the key of the two seen-set filters (lines 99 and 245)
dedupKey(r) == r.schema \o "|" \o r.path

\* rows.filter(r => { if (seen.has(key)) return false; seen.add(key); return true; })
RECURSIVE filterSeen(_, _)
filterSeen(rs, seen) ==
  IF rs = <<>> THEN <<>>
  ELSE IF dedupKey(Head(rs)) \in seen THEN filterSeen(Tail(rs), seen)
       ELSE <<Head(rs)>> \o filterSeen(Tail(rs), seen \cup {dedupKey(Head(rs))})

dedup(rs) == filterSeen(rs, {})

----------------------------------------------------------------------------
(* JavaScript numbers, in hundredths *)

Fin(n) == [k |-> "fin", n |-> n]

Inf(sign) == [k |-> "inf", n |-> sign]

NaN == [k |-> "nan", n |-> 0]

isFinite(x) == x.k = "fin"

\* x < y on numbers; any comparison with NaN is false
JsLess(x, y) ==
  CASE x.k = "nan" \/ y.k = "nan" -> FALSE
    [] x.k = "fin" /\ y.k = "fin" -> x.n < y.n
    [] x.k = "inf" /\ y.k = "inf" -> x.n < y.n
    [] x.k = "inf" -> x.n < 0
    [] OTHER -> y.n > 0

\* x - y
JsSub(x, y) ==
  CASE x.k = "nan" \/ y.k = "nan" -> NaN
    [] x.k = "fin" /\ y.k = "fin" -> Fin(x.n - y.n)
    [] x.k = "inf" /\ y.k = "inf" -> IF x.n = y.n THEN NaN ELSE Inf(x.n)
    [] x.k = "inf" -> Inf(x.n)
    [] OTHER -> Inf(0 - y.n)

\* x || 0 on a number: 0 and NaN are falsy
OrZero(x) == IF x.k = "nan" \/ (x.k = "fin" /\ x.n = 0) THEN Fin(0) ELSE x

\* The JSON values a `score` member takes in the model
JsonNum(x) == [t |-> "number", num |-> x, str |-> ""]

JsonStr(s) == [t |-> "string", num |-> NaN, str |-> s]

JsonNull == [t |-> "null", num |-> NaN, str |-> ""]

JsonAbsent == [t |-> "undefined", num |-> NaN, str |-> ""]

\* Number(s) of a string: the numeric literals the model's inputs use, anything else is NaN
StringToNumber(s) ==
  CASE s = "" -> Fin(0)
    [] s = "0.8" -> Fin(80)
    [] s = "Infinity" -> Inf(1)
    [] s = "-Infinity" -> Inf(-1)
    [] OTHER -> NaN

\* Number(v)
ToNumber(v) ==
  CASE v.t = "number" -> v.num
    [] v.t = "string" -> StringToNumber(v.str)
    [] v.t = "null" -> Fin(0)
    [] OTHER -> NaN

----------------------------------------------------------------------------
(* Oracle client: aoaiMapBatch *)

BatchSize == 60

\* m.source || '' and its siblings on a string member; an absent member is Undefined
StrOrEmpty(s) == IF s = Undefined THEN "" ELSE s

\* Number(m.score) || 0
scoreOf(m) == OrZero(ToNumber(m.score))

\* the arrow function of line 145
mapItem(m) ==
  [SourceField         |-> StrOrEmpty(m.source),
   SuggestedTargetPath |-> StrOrEmpty(m.target_path),
   MatchScore          |-> scoreOf(m),
   Rationale           |-> StrOrEmpty(m.rationale)]

\* The message content of a completion, as the values JSON.parse gives for it:
\*   shape "array": an array of items;   shape "object": an object, whose `mappings`
\*   member is an array of items ("array"), absent ("absent") or a non-empty string ("string");
\*   shape "number", "string": a JSON number or string;   shape "null": JSON null;
\*   shape "text": not JSON at all.
Content(shape, mappings, items) == [shape |-> shape, mappings |-> mappings, items |-> items]

\* lines 134-145 on a delivered completion: the mapped rows, or the message of the exception thrown
parseContent(c) ==
  CASE c.shape = "text" -> [ok |-> FALSE, rows |-> <<>>, message |-> "AOAI returned non-JSON"]
    [] c.shape = "null" -> [ok |-> FALSE, rows |-> <<>>, message |-> "Cannot read properties of null (reading 'mappings')"]
    [] c.shape = "array" -> [ok |-> TRUE, rows |-> [k \in 1..Len(c.items) |-> mapItem(c.items[k])], message |-> ""]
    [] c.shape = "object" /\ c.mappings = "array" ->
         [ok |-> TRUE, rows |-> [k \in 1..Len(c.items) |-> mapItem(c.items[k])], message |-> ""]
    [] c.shape = "object" /\ c.mappings = "string" ->
         [ok |-> FALSE, rows |-> <<>>, message |-> "mappings.map is not a function"]
    [] OTHER -> [ok |-> TRUE, rows |-> <<>>, message |-> ""]

----------------------------------------------------------------------------
(* Score colours: colorForScore and the two renderers' score cells *)

RED == <<248, 105, 107>>

YEL == <<255, 235, 132>>

GRN == <<99, 190, 123>>

LOWRED == <<252, 228, 228>>

WHITE == <<255, 255, 255>>

\* the low-confidence threshold 0.60
LowThreshold == 60

\* a clamp that only replaces the non-finite values
clamp_finiteOnly(x) ==
  LET y == OrZero(x)
  IN  IF y.k = "inf" THEN (IF y.n > 0 THEN 100 ELSE 0) ELSE y.n

\* clamp = x => Math.max(0, Math.min(1, x || 0)), in hundredths
clamp(x) ==
  LET y == OrZero(x)
  IN  IF y.k = "inf" THEN (IF y.n > 0 THEN 100 ELSE 0) ELSE Max(0, Min(100, y.n))

\* blend(a, b, t) with t = num/50: Math.round(a[c] + (b[c] - a[c]) * t) per channel
blend(a, b, num) == [c \in 1..3 |-> (100 * a[c] + 2 * (b[c] - a[c]) * num + 50) \div 100]

colorForScore(v) ==
  IF clamp(v) <= 50 THEN blend(RED, YEL, clamp(v)) ELSE blend(YEL, GRN, clamp(v) - 50)

\* a colour string '#rrggbb' is kept as its six hexadecimal digits
hexToRgb(h) == <<16 * h[1] + h[2], 16 * h[3] + h[4], 16 * h[5] + h[6]>>

\* n.toString(16).padStart(2,'0') per channel, for channels within 0..255
rgbToHex(rgb) == Flatten([c \in 1..3 |-> <<rgb[c] \div 16, rgb[c] % 16>>])

\* `${(v*100).toFixed(1)}%` is kept as the number of tenths of a percent; '' is "blank"
pctText(v) == IF isFinite(v) THEN [blank |-> FALSE, tenths |-> v.n * 10] ELSE [blank |-> TRUE, tenths |-> 0]

Rgb(c) == [kind |-> "rgb", rgb |-> c]

Transparent == [kind |-> "transparent", rgb |-> <<>>]

\* the MatchScore cell of buildExcelBuffer.addSheet (lines 171-177)
excelScoreCell(raw) ==
  [text |-> pctText(raw),
   bg   |-> IF isFinite(raw)
            THEN (IF JsLess(raw, Fin(LowThreshold)) THEN Rgb(LOWRED) ELSE Rgb(colorForScore(raw)))
            ELSE Rgb(WHITE)]

\* the MatchScore cell of dfToHtmlDoc (lines 197-202)
htmlScoreCell(raw) ==
  [text |-> pctText(raw),
   bg   |-> IF isFinite(raw) /\ JsLess(raw, Fin(LowThreshold)) THEN Rgb(LOWRED)
            ELSE IF isFinite(raw) THEN Rgb(colorForScore(raw)) ELSE Transparent]

----------------------------------------------------------------------------
(* Inputs: the uploaded XSD files *)

XsString == <<"xs", "string">>

XsdFile(originalname, hasSchema, complexTypes, elements) ==
  [originalname |-> originalname, hasSchema |-> hasSchema,
   complexTypes |-> complexTypes, elements |-> elements]

\* root Invoice with an inline sequence of two leaves
InvoiceXsd ==
  XsdFile("invoice.xsd", TRUE, <<>>,
    << Inline("Invoice", Ct(<< << El("Id", XsString, Undefined, Undefined),
                                  El("Total", <<"xs", "decimal">>, "0", Undefined) >> >>, <<>>, <<>>)) >>)

\* named types two levels deep, a path declared twice, a ref element, a childless type
OrderXsd ==
  XsdFile("order.xsd", TRUE,
    << [name |-> "OrderT",
        ct |-> Ct(<< << El("Id", XsString, Undefined, Undefined),
                        El("Line", <<"tns", "LineT">>, "1", "unbounded") >> >>,
                  << << El("Id", <<"xs", "int">>, Undefined, Undefined) >> >>,
                  <<>>)],
       [name |-> "LineT", ct |-> Ct(<<>>, <<>>, << << El("Qty", <<"xs", "int">>, Undefined, Undefined) >> >>)],
       [name |-> "EmptyT", ct |-> Ct(<<>>, <<>>, <<>>)] >>,
    << El("Order", <<"tns", "OrderT">>, Undefined, Undefined),
       Ref(<<"tns", "Note">>),
       El("Blank", <<"EmptyT">>, Undefined, Undefined) >>)

\* a complex type that contains an element of its own type
TreeXsd ==
  XsdFile("tree.xsd", TRUE,
    << [name |-> "NodeT",
        ct |-> Ct(<< << El("Value", XsString, Undefined, Undefined),
                        El("Child", <<"NodeT">>, "0", "unbounded") >> >>, <<>>, <<>>)] >>,
    << El("Node", <<"NodeT">>, Undefined, Undefined) >>)

\* two complex types that contain each other
PingPongXsd ==
  XsdFile("pingpong.xsd", TRUE,
    << [name |-> "PingT", ct |-> Ct(<< << El("Pong", <<"PongT">>, Undefined, Undefined) >> >>, <<>>, <<>>)],
       [name |-> "PongT", ct |-> Ct(<<>>, << << El("Ping", <<"PingT">>, Undefined, Undefined) >> >>, <<>>)] >>,
    << El("Ping", <<"PingT">>, Undefined, Undefined) >>)

\* a second upload named invoice.xsd, declaring Invoice/Id again
InvoiceAgainXsd ==
  XsdFile("invoice.xsd", TRUE, <<>>,
    << Inline("Invoice", Ct(<< << El("Id", <<"xs", "token">>, Undefined, Undefined),
                                  El("Date", <<"xs", "date">>, Undefined, Undefined) >> >>, <<>>, <<>>)) >>)

\* another schema that declares the path Invoice/Id
BillingXsd ==
  XsdFile("billing.xsd", TRUE, <<>>,
    << Inline("Invoice", Ct(<<>>, <<>>, << << El("Id", <<"xs", "long">>, "0", "1") >> >>)) >>)

\* a file name and an element name that hold the character '|'
BarNameXsd == XsdFile("a|b", TRUE, <<>>, << El("c", XsString, Undefined, Undefined) >>)

BarPathXsd == XsdFile("a", TRUE, <<>>, << El("b|c", <<"xs", "int">>, Undefined, Undefined) >>)

\* a schema that declares the path c, as the file named a|b does
PlainCXsd == XsdFile("c.xsd", TRUE, <<>>, << El("c", <<"xs", "date">>, "0", Undefined) >>)

\* a document without a schema root
NoSchemaXsd == XsdFile("notes.xml", FALSE, <<>>, <<>>)

XsdFiles ==
  {InvoiceXsd, OrderXsd, TreeXsd, PingPongXsd, InvoiceAgainXsd, BillingXsd,
   BarNameXsd, BarPathXsd, NoSchemaXsd}

FileLists == UNION {[1..n -> XsdFiles] : n \in 0..MaxFiles}

----------------------------------------------------------------------------
(* Inputs: the source table *)

FieldName(k) == "f" \o ToString(k)

\* the cell of column k in every data row: every third column is empty
CellValue(k) == IF k % 3 = 0 THEN "" ELSE "v" \o ToString(k)

SourceFile(present, nRows, nCols) == [present |-> present, nRows |-> nRows, nCols |-> nCols]

FieldCounts == {q * BatchSize + r : q \in 0..MaxFull, r \in 0..MaxTail}

\* [...new Set(column)].filter(Boolean).slice(0,3) of line 247
samplesOf(source, field) ==
  LET cols == {k \in 1..source.nCols : FieldName(k) = field /\ source.nRows > 0 /\ CellValue(k) # ""}
  IN  IF cols = {} THEN <<>> ELSE <<CellValue(CHOOSE k \in cols : TRUE)>>

----------------------------------------------------------------------------
(* Inputs: the oracle *)

Item(source, target, score, rationale) ==
  [source |-> source, target_path |-> target, score |-> score, rationale |-> rationale]

\* how a completion picks the target_path of an item
TargetSelectors == {"first", "last", "bogus", "absent"}

pickTarget(sel, dict) ==
  CASE sel = "absent" -> Undefined
    [] sel = "bogus" \/ dict = <<>> -> "No/Such/Path"
    [] sel = "first" -> dict[1].path
    [] OTHER -> dict[Len(dict)].path

\* score and target_path of the items of a completion, repeated along its items
InRangePattern ==
  << [score |-> JsonNum(Fin(90)), target |-> "first"], [score |-> JsonNum(Fin(50)), target |-> "last"],
     [score |-> JsonNum(Fin(90)), target |-> "bogus"], [score |-> JsonNum(Fin(59)), target |-> "absent"],
     [score |-> JsonNum(Fin(60)), target |-> "last"],  [score |-> JsonNum(Fin(100)), target |-> "first"],
     [score |-> JsonStr("0.8"), target |-> "first"] >>

LoosePattern ==
  << [score |-> JsonNum(Fin(150)), target |-> "last"], [score |-> JsonNum(Fin(-20)), target |-> "first"],
     [score |-> JsonStr("high"), target |-> "first"],  [score |-> JsonAbsent, target |-> "absent"],
     [score |-> JsonNull, target |-> "bogus"] >>

OverflowPattern ==
  << [score |-> JsonNum(Inf(1)), target |-> "first"], [score |-> JsonNum(Fin(70)), target |-> "last"],
     [score |-> JsonStr("-Infinity"), target |-> "first"], [score |-> JsonNum(Fin(70)), target |-> "first"],
     [score |-> JsonStr("Infinity"), target |-> "last"] >>

Patterns == {InRangePattern, LoosePattern, OverflowPattern}

Arrangements == {"inOrder", "reversed", "omitFirst", "dupFirst", "foreign"}

Reverse(s) == [k \in 1..Len(s) |-> s[Len(s) + 1 - k]]

\* the source fields a completion names, for the batch it was asked about
arrange(how, batch) ==
  CASE how = "inOrder" -> batch
    [] how = "reversed" -> Reverse(batch)
    [] how = "omitFirst" -> Tail(batch)
    [] how = "dupFirst" -> <<Head(batch)>> \o batch
    [] OTHER -> batch \o <<"ghost">>

Oracle(shape, mappings, how, pattern) ==
  [shape |-> shape, mappings |-> mappings, how |-> how, pattern |-> pattern]

PlainOracle == Oracle("array", "absent", "inOrder", InRangePattern)

\* the oracle's ways of answering: an array or a {mappings: [...]} object in every
\* arrangement and pattern, an object without mappings, a bare number, a bare string
Oracles ==
  {Oracle(sh[1], sh[2], how, pat) :
      sh \in {<<"array", "absent">>, <<"object", "array">>}, how \in Arrangements, pat \in Patterns}
  \cup {Oracle("object", "absent", "inOrder", InRangePattern),
        Oracle("number", "absent", "inOrder", InRangePattern),
        Oracle("string", "absent", "inOrder", InRangePattern)}

\* the completion this oracle gives for a batch and a dictionary
completion(oracle, batch, dict) ==
  LET names == arrange(oracle.how, batch)
      pat == oracle.pattern
      items == [k \in 1..Len(names) |->
                  LET t == pat[((k - 1) % Len(pat)) + 1]
                  IN  Item(names[k], pickTarget(t.target, dict), t.score, "because")]
  IN  Content(oracle.shape, oracle.mappings, items)

\* completions that make aoaiMapBatch throw after the reply arrived
BadContents == {Content("text", "absent", <<>>), Content("null", "absent", <<>>),
                Content("object", "string", <<>>)}

----------------------------------------------------------------------------
(* Requests *)

Request(format, files, source, oracle) ==
  [output_format |-> format, xsd_files |-> files, source_file |-> source, oracle |-> oracle]

\* requests that vary the uploaded schemas
SchemaRequests ==
  {Request("both", fl, SourceFile(TRUE, 1, 1), PlainOracle) : fl \in FileLists}

\* a request with three schemas: the first two differ in where the character '|'
\* stands, the last two declare the same path
ThreeSchemaRequests ==
  {Request("both", <<BarPathXsd, BarNameXsd, PlainCXsd>>, SourceFile(TRUE, 1, 1), o) :
      o \in {PlainOracle, Oracle("array", "absent", "inOrder", LoosePattern)}}

\* requests that vary the source fields and the oracle's answers
FieldRequests ==
  {Request(Undefined, <<InvoiceXsd, BillingXsd>>, SourceFile(TRUE, 2, n), o) :
      n \in FieldCounts, o \in Oracles}

\* requests that vary the form fields
FormRequests ==
  {Request(f, fl, src, o) :
      f \in {Undefined, "xlsx", "HTML", "both", "pdf"},
      fl \in {<<>>, <<InvoiceXsd>>},
      src \in {SourceFile(FALSE, 0, 0), SourceFile(TRUE, 0, 2), SourceFile(TRUE, 1, 2)},
      o \in {PlainOracle, Oracle("object", "array", "dupFirst", OverflowPattern)}}

Requests == SchemaRequests \cup ThreeSchemaRequests \cup FieldRequests \cup FormRequests

\* String.prototype.toLowerCase on the format names the requests use
toLowerCase(s) == IF s = "HTML" THEN "html" ELSE s

\* (req.body.output_format || 'both').toLowerCase()
outputFormat == toLowerCase(IF req.output_format = Undefined THEN "both" ELSE req.output_format)

\* what axios.post comes back with: a completion ("ok"), or a rejection ("error")
Reply(transport, content) == [transport |-> transport, content |-> content]

NoReply == Reply("none", Content("null", "absent", <<>>))

NoResponse == [status |-> 0, message |-> "", body |-> "none", xlsx |-> <<>>, html |-> <<>>]

\* res.status(code).send(message)
Failure(code, message) == [status |-> code, message |-> message, body |-> "text", xlsx |-> <<>>, html |-> <<>>]

Init ==
  /\ req \in Requests
  /\ pc = "start"
  /\ fileIdx = 1
  /\ gelIdx = 1
  /\ rows = <<>>
  /\ visits = <<>>
  /\ stack = <<>>
  /\ targetDict = <<>>
  /\ sourceFields = <<>>
  /\ i = 0
  /\ calls = <<>>
  /\ inflight = 0
  /\ reply = NoReply
  /\ results = <<>>
  /\ bySource = <<>>
  /\ byScore = <<>>
  /\ res = NoResponse
  /\ colorArg = Fin(0)
  /\ colorOut = <<>>

----------------------------------------------------------------------------
(* The handler of POST /api/map *)

\* a validation that checks the output format alone
validationError_formatOnly ==
  IF outputFormat \notin {"xlsx", "html", "both"} THEN "output_format must be xlsx|html|both"
  ELSE ""

\* the three checks of lines 232-237, in the order the handler makes them
validationError ==
  IF outputFormat \notin {"xlsx", "html", "both"} THEN "output_format must be xlsx|html|both"
  ELSE IF req.xsd_files = <<>> THEN "At least one xsd_files required"
  ELSE IF ~req.source_file.present THEN "source_file required"
  ELSE ""

\* lines 230-237, a request that fails a check
Reject ==
  /\ pc = "start"
  /\ validationError # ""
  /\ res' = Failure(400, validationError)
  /\ pc' = "done"
  /\ UNCHANGED <<req, colorArg, colorOut, fileIdx, gelIdx, rows, visits, stack, targetDict, sourceFields, i, calls,
                 inflight, reply, results, bySource, byScore>>

\* lines 230-240, a request that passes them: the source file is read
ReadSource ==
  /\ pc = "start"
  /\ validationError = ""
  /\ sourceFields' = IF req.source_file.nRows > 0
                     THEN [k \in 1..req.source_file.nCols |-> FieldName(k)] ELSE <<>>
  /\ pc' = "flatten"
  /\ UNCHANGED <<req, colorArg, colorOut, fileIdx, gelIdx, rows, visits, stack, targetDict, i, calls,
                 inflight, reply, results, bySource, byScore, res>>

curFile == req.xsd_files[fileIdx]

\* line 243 calls parseXsdPaths, which returns [] at line 62 or sets out at line 97
ParseFile ==
  /\ pc = "flatten"
  /\ fileIdx <= Len(req.xsd_files)
  /\ IF curFile.hasSchema
     THEN pc' = "walk" /\ fileIdx' = fileIdx
     ELSE pc' = "flatten" /\ fileIdx' = fileIdx + 1
  /\ rows' = <<>>
  /\ visits' = <<>>
  /\ gelIdx' = 1
  /\ UNCHANGED <<req, colorArg, colorOut, stack, targetDict, sourceFields, i, calls, inflight, reply, results,
                 bySource, byScore, res>>

\* the body of walk(el, prefix), lines 82-95, up to its first recursive call
walk(el, prefix, callers) ==
  /\ visits' = Append(visits, pathStrOf(el, prefix))
  /\ IF isLeaf(curFile.complexTypes, el)
     THEN /\ rows' = Append(rows, leafRow(curFile.originalname, curFile.complexTypes, el, prefix))
          /\ stack' = callers
     ELSE /\ rows' = rows
          /\ stack' = Append(callers, [path |-> pathStrOf(el, prefix),
                                       kids |-> kidsOf(curFile.complexTypes, el), k |-> 1])

\* line 97: walk(gel, '')
WalkRoot ==
  /\ pc = "walk"
  /\ stack = <<>>
  /\ gelIdx <= Len(curFile.elements)
  /\ walk(curFile.elements[gelIdx], "", <<>>)
  /\ gelIdx' = gelIdx + 1
  /\ UNCHANGED <<req, colorArg, colorOut, pc, fileIdx, targetDict, sourceFields, i, calls, inflight, reply, results,
                 bySource, byScore, res>>

top == stack[Len(stack)]

\* a loop over the kids that steps past every second one
WalkKid_skip ==
  /\ pc = "walk"
  /\ stack # <<>>
  /\ top.k <= Len(top.kids)
  /\ Len(stack) < StackLimit
  /\ walk(top.kids[top.k], top.path, [stack EXCEPT ![Len(stack)].k = top.k + 2])
  /\ UNCHANGED <<req, colorArg, colorOut, pc, fileIdx, gelIdx, targetDict, sourceFields, i, calls, inflight, reply,
                 results, bySource, byScore, res>>

\* line 95: walk(kid, pathStr), while the call stack has room
WalkKid ==
  /\ pc = "walk"
  /\ stack # <<>>
  /\ top.k <= Len(top.kids)
  /\ Len(stack) < StackLimit
  /\ walk(top.kids[top.k], top.path, [stack EXCEPT ![Len(stack)].k = top.k + 1])
  /\ UNCHANGED <<req, colorArg, colorOut, pc, fileIdx, gelIdx, targetDict, sourceFields, i, calls, inflight, reply,
                 results, bySource, byScore, res>>

\* a flattener that answers the RangeError by walking the file again from its first root
WalkOverflow_restart ==
  /\ pc = "walk"
  /\ stack # <<>>
  /\ top.k <= Len(top.kids)
  /\ Len(stack) >= StackLimit
  /\ stack' = <<>>
  /\ rows' = <<>>
  /\ visits' = <<>>
  /\ gelIdx' = 1
  /\ UNCHANGED <<req, colorArg, colorOut, pc, fileIdx, targetDict, sourceFields, i, calls, inflight, reply,
                 results, bySource, byScore, res>>

\* line 95 when the call stack is full: the engine throws RangeError, which
\* unwinds to the catch of lines 311-314
WalkOverflow ==
  /\ pc = "walk"
  /\ stack # <<>>
  /\ top.k <= Len(top.kids)
  /\ Len(stack) >= StackLimit
  /\ stack' = <<>>
  /\ res' = Failure(500, "Maximum call stack size exceeded")
  /\ pc' = "done"
  /\ UNCHANGED <<req, colorArg, colorOut, fileIdx, gelIdx, rows, visits, targetDict, sourceFields, i, calls, inflight, reply,
                 results, bySource, byScore>>

\* the loop of line 95 is over: walk returns
WalkReturn ==
  /\ pc = "walk"
  /\ stack # <<>>
  /\ top.k > Len(top.kids)
  /\ stack' = SubSeq(stack, 1, Len(stack) - 1)
  /\ UNCHANGED <<req, colorArg, colorOut, pc, fileIdx, gelIdx, rows, visits, targetDict, sourceFields, i, calls,
                 inflight, reply, results, bySource, byScore, res>>

\* lines 98-99 and the concat of line 243
ParseDone ==
  /\ pc = "walk"
  /\ stack = <<>>
  /\ gelIdx > Len(curFile.elements)
  /\ targetDict' = targetDict \o dedup(rows)
  /\ rows' = <<>>
  /\ visits' = <<>>
  /\ fileIdx' = fileIdx + 1
  /\ pc' = "flatten"
  /\ UNCHANGED <<req, colorArg, colorOut, gelIdx, stack, sourceFields, i, calls, inflight, reply, results,
                 bySource, byScore, res>>

\* lines 244-245
MergeDict ==
  /\ pc = "flatten"
  /\ fileIdx > Len(req.xsd_files)
  /\ targetDict' = dedup(targetDict)
  /\ pc' = "batch"
  /\ UNCHANGED <<req, colorArg, colorOut, fileIdx, gelIdx, rows, visits, stack, sourceFields, i, calls, inflight, reply,
                 results, bySource, byScore, res>>

\* a slice that runs one field into the next batch
batchAt_overlap(fields, from) == SubSeq(fields, from + 1, Min(from + BatchSize + 1, Len(fields)))

\* sourceFields.slice(i, i+60)
batchAt(fields, from) == SubSeq(fields, from + 1, Min(from + BatchSize, Len(fields)))

\* lines 250-253: the next batch is handed to aoaiMapBatch, which posts it
CallOracle ==
  /\ pc = "batch"
  /\ i < Len(sourceFields)
  /\ calls' = Append(calls, batchAt(sourceFields, i))
  /\ inflight' = inflight + 1
  /\ pc' = "await"
  /\ UNCHANGED <<req, colorArg, colorOut, fileIdx, gelIdx, rows, visits, stack, targetDict, sourceFields, i, reply,
                 results, bySource, byScore, res>>

\* what the oracle may come back with for the batch in flight
replies ==
  {Reply("ok", c) : c \in {completion(req.oracle, Last(calls), targetDict)} \cup BadContents}
  \cup {Reply("error", Content("null", "absent", <<>>))}

\* the await of line 125 ends: the post resolves or rejects
OracleReply ==
  /\ pc = "await"
  /\ reply' \in replies
  /\ inflight' = inflight - 1
  /\ pc' = "parse"
  /\ UNCHANGED <<req, colorArg, colorOut, fileIdx, gelIdx, rows, visits, stack, targetDict, sourceFields, i, calls,
                 results, bySource, byScore, res>>

\* aoaiMapBatch from line 125 on: the rows it returns, or the message of what it throws
aoaiMapBatch(r) ==
  IF r.transport = "error"
  THEN [ok |-> FALSE, rows |-> <<>>, message |-> "timeout of 120000ms exceeded"]
  ELSE parseContent(r.content)

\* lines 253-254: aoaiMapBatch returned, results grow and the loop goes on
BatchDone ==
  /\ pc = "parse"
  /\ aoaiMapBatch(reply).ok
  /\ results' = results \o aoaiMapBatch(reply).rows
  /\ i' = i + BatchSize
  /\ pc' = "batch"
  /\ UNCHANGED <<req, colorArg, colorOut, fileIdx, gelIdx, rows, visits, stack, targetDict, sourceFields, calls,
                 inflight, reply, bySource, byScore, res>>

\* a handler that catches the failure of a batch inside the loop and goes on with the next one
BatchThrows_continue ==
  /\ pc = "parse"
  /\ ~aoaiMapBatch(reply).ok
  /\ i' = i + BatchSize
  /\ pc' = "batch"
  /\ UNCHANGED <<req, colorArg, colorOut, fileIdx, gelIdx, rows, visits, stack, targetDict, sourceFields, calls,
                 inflight, reply, results, bySource, byScore, res>>

\* aoaiMapBatch threw: the catch of lines 311-314 answers
BatchThrows ==
  /\ pc = "parse"
  /\ ~aoaiMapBatch(reply).ok
  /\ res' = Failure(500, aoaiMapBatch(reply).message)
  /\ pc' = "done"
  /\ UNCHANGED <<req, colorArg, colorOut, fileIdx, gelIdx, rows, visits, stack, targetDict, sourceFields, i, calls,
                 inflight, reply, results, bySource, byScore>>

\* lines 256-257
backfill(fields, rs) ==
  LET have == {rs[k].SourceField : k \in 1..Len(rs)}
      missing == SelectSeq(fields, LAMBDA c : c \notin have)
  IN  rs \o [k \in 1..Len(missing) |->
               [SourceField |-> missing[k], SuggestedTargetPath |-> "",
                MatchScore |-> Fin(0), Rationale |-> ""]]

Backfill ==
  /\ pc = "batch"
  /\ i >= Len(sourceFields)
  /\ results' = backfill(sourceFields, results)
  /\ pc' = "assemble"
  /\ UNCHANGED <<req, colorArg, colorOut, fileIdx, gelIdx, rows, visits, stack, targetDict, sourceFields, i, calls,
                 inflight, reply, bySource, byScore, res>>

NoExtra == [schema |-> "", type |-> "", minOccurs |-> "", maxOccurs |-> ""]

\* extraByPath.get(path) || {} : new Map(pairs) keeps the last pair of a key
extraOf(dict, path) ==
  LET hits == {k \in 1..Len(dict) : dict[k].path = path}
  IN  IF hits = {} THEN NoExtra
      ELSE LET r == dict[CHOOSE k \in hits : \A h \in hits : h <= k]
           IN  [schema |-> r.schema, type |-> r.type, minOccurs |-> r.minOccurs, maxOccurs |-> r.maxOccurs]

\* the row built at lines 260-273
assembleRow(r, idx, dict, source) ==
  LET extra == extraOf(dict, r.SuggestedTargetPath)
      sample == samplesOf(source, r.SourceField)
  IN  [SourceOrder         |-> idx,
       SourceField         |-> r.SourceField,
       SuggestedTargetPath |-> r.SuggestedTargetPath,
       TargetSchema        |-> extra.schema,
       TargetType          |-> extra.type,
       Occurs              |-> extra.minOccurs \o ".." \o extra.maxOccurs,
       MatchScore          |-> r.MatchScore,
       SampleValue         |-> IF sample = <<>> THEN "" ELSE sample[1],
       Rationale           |-> r.Rationale]

Assemble ==
  /\ pc = "assemble"
  /\ bySource' = [k \in 1..Len(results) |-> assembleRow(results[k], k, targetDict, req.source_file)]
  /\ pc' = "sort"
  /\ UNCHANGED <<req, colorArg, colorOut, fileIdx, gelIdx, rows, visits, stack, targetDict, sourceFields, i, calls,
                 inflight, reply, results, byScore, res>>

\* the comparator with its operands exchanged: an ascending sort
compareRows_ascending(a, b) == JsSub(OrZero(a.MatchScore), OrZero(b.MatchScore))

\* the comparator of line 274: (b.MatchScore||0) - (a.MatchScore||0)
compareRows(a, b) == JsSub(OrZero(b.MatchScore), OrZero(a.MatchScore))

\* whether sort places b before a: the comparator's value is positive (NaN counts as 0)
outOfOrder(a, b) == JsLess(Fin(0), compareRows(a, b))

\* Array.prototype.sort with the comparator of line 274, which reads MatchScore
\* alone. The sort is stable: the rows whose score the comparator puts behind no
\* other score come first, in the order they had, then the remaining rows sorted.
RECURSIVE sort(_)
sort(s) ==
  LET scores  == {s[k].MatchScore : k \in 1..Len(s)}
      leading == {x \in scores :
                    \A y \in scores : ~outOfOrder([MatchScore |-> x], [MatchScore |-> y])}
  IN  IF s = <<>> THEN <<>>
      ELSE SelectSeq(s, LAMBDA r : r.MatchScore \in leading)
           \o sort(SelectSeq(s, LAMBDA r : r.MatchScore \notin leading))

\* line 274: [...bySource].sort(...)
SortByScore ==
  /\ pc = "sort"
  /\ byScore' = sort(bySource)
  /\ pc' = "respond"
  /\ UNCHANGED <<req, colorArg, colorOut, fileIdx, gelIdx, rows, visits, stack, targetDict, sourceFields, i, calls,
                 inflight, reply, results, bySource, res>>

\* the score cells of the two mapping sheets of the workbook (lines 182-183)
buildExcelBuffer(dfBySource, dfByScore) ==
  [bySource |-> [k \in 1..Len(dfBySource) |-> excelScoreCell(dfBySource[k].MatchScore)],
   byScore  |-> [k \in 1..Len(dfByScore) |-> excelScoreCell(dfByScore[k].MatchScore)]]

\* the score cells of the two mapping documents (lines 285-286)
dfToHtmlDoc(dfBySource, dfByScore) ==
  [bySource |-> [k \in 1..Len(dfBySource) |-> htmlScoreCell(dfBySource[k].MatchScore)],
   byScore  |-> [k \in 1..Len(dfByScore) |-> htmlScoreCell(dfByScore[k].MatchScore)]]

\* lines 276-282
RespondXlsx ==
  /\ pc = "respond"
  /\ outputFormat = "xlsx"
  /\ res' = [status |-> 200, message |-> "", body |-> "xlsx",
             xlsx |-> <<buildExcelBuffer(bySource, byScore)>>, html |-> <<>>]
  /\ pc' = "done"
  /\ UNCHANGED <<req, colorArg, colorOut, fileIdx, gelIdx, rows, visits, stack, targetDict, sourceFields, i, calls,
                 inflight, reply, results, bySource, byScore>>

\* lines 284-299
RespondHtml ==
  /\ pc = "respond"
  /\ outputFormat = "html"
  /\ res' = [status |-> 200, message |-> "", body |-> "zip",
             xlsx |-> <<>>, html |-> <<dfToHtmlDoc(bySource, byScore)>>]
  /\ pc' = "done"
  /\ UNCHANGED <<req, colorArg, colorOut, fileIdx, gelIdx, rows, visits, stack, targetDict, sourceFields, i, calls,
                 inflight, reply, results, bySource, byScore>>

\* lines 284-289 and 301-310
RespondBoth ==
  /\ pc = "respond"
  /\ outputFormat \notin {"xlsx", "html"}
  /\ res' = [status |-> 200, message |-> "", body |-> "zip",
             xlsx |-> <<buildExcelBuffer(bySource, byScore)>>,
             html |-> <<dfToHtmlDoc(bySource, byScore)>>]
  /\ pc' = "done"
  /\ UNCHANGED <<req, colorArg, colorOut, fileIdx, gelIdx, rows, visits, stack, targetDict, sourceFields, i, calls,
                 inflight, reply, results, bySource, byScore>>

Next ==
  \/ Reject
  \/ ReadSource
  \/ ParseFile
  \/ WalkRoot
  \/ WalkKid
  \/ WalkOverflow
  \/ WalkReturn
  \/ ParseDone
  \/ MergeDict
  \/ CallOracle
  \/ OracleReply
  \/ BatchDone
  \/ BatchThrows
  \/ Backfill
  \/ Assemble
  \/ SortByScore
  \/ RespondXlsx
  \/ RespondHtml
  \/ RespondBoth

Spec == Init /\ [][Next]_vars

\* parseXsdPaths is synchronous code: once called it runs, step after step, until
\* it returns or throws.
Flattening == WalkRoot \/ WalkKid \/ WalkOverflow \/ WalkReturn \/ ParseDone

FairSpec == Spec /\ WF_vars(Flattening)

----------------------------------------------------------------------------
(* colorForScore called on its own *)

\* how far beyond the interval 0..1 the scores passed to colorForScore lie, in hundredths
MaxBeyond == 25

ScoreInputs ==
  {Fin(n) : n \in (0 - MaxBeyond)..(100 + MaxBeyond)} \cup {Inf(1), Inf(-1), NaN}

ColorInit ==
  /\ colorArg \in ScoreInputs
  /\ colorOut = <<>>
  /\ req = Request(Undefined, <<>>, SourceFile(FALSE, 0, 0), PlainOracle)
  /\ pc = "color"
  /\ fileIdx = 1
  /\ gelIdx = 1
  /\ rows = <<>>
  /\ visits = <<>>
  /\ stack = <<>>
  /\ targetDict = <<>>
  /\ sourceFields = <<>>
  /\ i = 0
  /\ calls = <<>>
  /\ inflight = 0
  /\ reply = NoReply
  /\ results = <<>>
  /\ bySource = <<>>
  /\ byScore = <<>>
  /\ res = NoResponse

\* one call colorForScore(v), lines 148-157; the function is called twice on the same score
ColorCall ==
  /\ pc = "color"
  /\ Len(colorOut) < 2
  /\ colorOut' = Append(colorOut, rgbToHex(colorForScore(colorArg)))
  /\ UNCHANGED <<req, colorArg, pc, fileIdx, gelIdx, rows, visits, stack, targetDict, sourceFields,
                 i, calls, inflight, reply, results, bySource, byScore, res>>

ColorNext == ColorCall

ColorSpec == ColorInit /\ [][ColorNext]_vars

----------------------------------------------------------------------------
(* Properties *)

\* the tables have been assembled
Assembled == pc \in {"sort", "respond"} \/ (pc = "done" /\ res.status = 200)

\* the by-score table has been computed
Sorted == pc = "respond" \/ (pc = "done" /\ res.status = 200)

\* 1-based position of a field in the field list, 0 when it is not in it
positionOf(field) ==
  IF \E k \in 1..Len(sourceFields) : sourceFields[k] = field
  THEN CHOOSE k \in 1..Len(sourceFields) : sourceFields[k] = field
  ELSE 0

rowsOf(field) == {k \in 1..Len(bySource) : bySource[k].SourceField = field}

\* C1: once assembled, bySource has exactly one row per source field of the field
\* list: as many rows as fields, and no source field in more than one row.
C1_OneRowPerSourceField ==
  Assembled =>
    /\ Len(bySource) = Len(sourceFields)
    /\ \A k \in 1..Len(sourceFields) : Cardinality(rowsOf(sourceFields[k])) = 1

\* C2: once assembled with one row per source field, the rows of bySource are in
\* field-list order and each row's SourceOrder is the 1-based position of its
\* source field in the field list.
C2_RowsInFieldListOrder ==
  (Assembled /\ Len(bySource) = Len(sourceFields)
             /\ \A k \in 1..Len(sourceFields) : Cardinality(rowsOf(sourceFields[k])) = 1) =>
    \A k \in 1..Len(bySource) :
      /\ bySource[k].SourceField = sourceFields[k]
      /\ bySource[k].SourceOrder = positionOf(bySource[k].SourceField)

inUnitInterval(x) == x.k = "fin" /\ 0 <= x.n /\ x.n <= 100

\* C3: every MatchScore of the assembled tables is a finite number in [0,1].
C3_ScoresInUnitInterval ==
  Assembled => \A k \in 1..Len(bySource) : inUnitInterval(bySource[k].MatchScore)

\* byScore holds every row of bySource exactly once
isPermutation ==
  /\ Len(byScore) = Len(bySource)
  /\ \A k \in 1..Len(byScore) : byScore[k].SourceOrder \in 1..Len(bySource)
  /\ \A k \in 1..Len(byScore) : byScore[k] = bySource[byScore[k].SourceOrder]
  /\ \A j, k \in 1..Len(byScore) : j # k => byScore[j].SourceOrder # byScore[k].SourceOrder

\* C4: byScore is a permutation of bySource in non-increasing order of MatchScore,
\* rows of equal score keep the relative order they have in bySource, and the
\* sort leaves bySource as it was.
C4_ByScoreStableSorted ==
  /\ [](Sorted =>
          /\ isPermutation
          /\ \A j, k \in 1..Len(byScore) :
               j < k => /\ ~JsLess(byScore[j].MatchScore, byScore[k].MatchScore)
                        /\ (byScore[j].MatchScore = byScore[k].MatchScore
                              => byScore[j].SourceOrder < byScore[k].SourceOrder))
  /\ [][pc = "sort" => bySource' = bySource]_vars

\* C4 witness: a sorted table in which rows moved and rows of equal score occur
\* with a row of another score between them in bySource
C4_Witness ==
  /\ Sorted
  /\ byScore # bySource
  /\ \E j, k, m \in 1..Len(bySource) :
        /\ j < m /\ m < k
        /\ bySource[j].MatchScore = bySource[k].MatchScore
        /\ JsLess(bySource[j].MatchScore, bySource[m].MatchScore)

\* the entries of a list that are the first with their (schema, path)
firstOfEachKey(rs) ==
  SelectSeq([k \in 1..Len(rs) |-> [at |-> k, row |-> rs[k]]],
            LAMBDA e : ~\E j \in 1..(e.at - 1) :
                           rs[j].schema = e.row.schema /\ rs[j].path = e.row.path)

rowsAt(es) == [k \in 1..Len(es) |-> es[k].row]

\* C5: the dictionary keeps, of the entries discovered, exactly the first one of
\* every (schema, path), in discovery order: within a file when parseXsdPaths
\* returns, and across the files when the handler merges.
C5_FirstOfEachSchemaPath ==
  [][/\ (pc = "walk" /\ pc' = "flatten") => targetDict' = targetDict \o rowsAt(firstOfEachKey(rows))
     /\ (pc = "flatten" /\ pc' = "batch") => targetDict' = rowsAt(firstOfEachKey(targetDict))]_vars

\* the k-th chunk of at most BatchSize fields of the field list
chunkOf(k) == SubSeq(sourceFields, (k - 1) * BatchSize + 1, Min(k * BatchSize, Len(sourceFields)))

\* the calls that have come back
returned == Len(calls) - (IF pc \in {"await", "parse"} THEN 1 ELSE 0)

\* C6: the batches handed to the oracle are the successive chunks of at most 60
\* fields of the field list, at most one call is in flight at any time, results is
\* the concatenation of the returned calls' rows in call order, and a run that gets
\* past the batch loop has made exactly ceil(n/60) calls covering every field once.
C6_SequentialChunks ==
  /\ inflight \in {0, 1}
  /\ inflight = (IF pc = "await" THEN 1 ELSE 0)
  /\ \A k \in 1..Len(calls) : calls[k] = chunkOf(k) /\ Len(calls[k]) \in 1..BatchSize
  /\ pc \in {"batch", "await", "parse"} =>
       results = Flatten([k \in 1..returned |->
                            parseContent(completion(req.oracle, calls[k], targetDict)).rows])
  /\ (pc = "assemble" \/ Assembled) =>
       /\ Len(calls) = (Len(sourceFields) + BatchSize - 1) \div BatchSize
       /\ Flatten(calls) = sourceFields

\* C6 witness: a finished run of three calls, the last one a partial chunk
C6_Witness ==
  /\ pc = "done" /\ res.status = 200
  /\ Len(calls) = 3
  /\ Len(calls[1]) = BatchSize /\ Len(calls[3]) < BatchSize
  /\ Len(results) > 2 * BatchSize

\* the call that came back last failed: the post was rejected, or the completion is not JSON
callFailed == reply.transport = "error" \/ (reply.transport = "ok" /\ reply.content.shape = "text")

noReport == res.xlsx = <<>> /\ res.html = <<>> /\ res.body \in {"none", "text"}

\* C7: once an oracle call has failed and the handler has dealt with it, the run is
\* over: status 500 with one message, no report, no table assembled, and no call
\* issued after the failed one.
C7_FailedCallAbortsRun ==
  (callFailed /\ pc # "parse") =>
    /\ pc = "done"
    /\ res.status = 500 /\ res.body = "text" /\ res.message # ""
    /\ noReport
    /\ bySource = <<>> /\ byScore = <<>>
    /\ inflight = 0
    /\ i = (Len(calls) - 1) * BatchSize

\* C7 witness: a run aborted by a failed call after an earlier batch had succeeded
C7_Witness ==
  /\ pc = "done" /\ callFailed
  /\ Len(calls) >= 2 /\ results # <<>>
  /\ res.status = 500

acceptable(c) == c.shape = "array" \/ (c.shape = "object" /\ c.mappings = "array")

\* C8: a completion that is neither an array nor an object with a mappings array is
\* a hard failure: once the handler has dealt with it the run is over with a
\* failure status and no report.
C8_OtherShapesFail ==
  (reply.transport = "ok" /\ ~acceptable(reply.content) /\ pc # "parse") =>
    (pc = "done" /\ res.status = 500 /\ noReport)

\* the colour the score cell is to have
expectedBg(score) ==
  IF JsLess(score, Fin(LowThreshold)) THEN Rgb(LOWRED) ELSE Rgb(colorForScore(score))

\* C9: in a report that holds both formats, every score cell of the workbook has
\* the same text and background as the matching cell of the documents: the flat
\* low-confidence colour below 0.60, the gradient colour otherwise.
C9_RenderersAgree ==
  (pc = "done" /\ res.xlsx # <<>> /\ res.html # <<>>) =>
    /\ \A k \in 1..Len(bySource) :
         /\ res.xlsx[1].bySource[k] = res.html[1].bySource[k]
         /\ res.xlsx[1].bySource[k].bg = expectedBg(bySource[k].MatchScore)
    /\ \A k \in 1..Len(byScore) :
         /\ res.xlsx[1].byScore[k] = res.html[1].byScore[k]
         /\ res.xlsx[1].byScore[k].bg = expectedBg(byScore[k].MatchScore)

\* the named complex types an element leads to without passing through another named type
RECURSIVE namedTypesOf(_, _)
namedTypesOf(cts, el) ==
  IF tnameOf(el) # "" /\ LookupType(cts, tnameOf(el)) # <<>> THEN {tnameOf(el)}
  ELSE IF el.inline = <<>> THEN {}
  ELSE UNION {namedTypesOf(cts, kid) : kid \in Range(childElements(el.inline[1]))}

typeRefs(cts, t) ==
  UNION {namedTypesOf(cts, kid) : kid \in Range(childElements(LookupType(cts, t)[1]))}

RECURSIVE reachableTypes(_, _, _)
reachableTypes(cts, from, steps) ==
  IF steps = 0 THEN from
  ELSE reachableTypes(cts, from \cup UNION {typeRefs(cts, t) : t \in from}, steps - 1)

\* a complex type used by a root element refers to itself, directly or through other types
isCyclic(file) ==
  /\ file.hasSchema
  /\ \E t \in reachableTypes(file.complexTypes,
                             UNION {namedTypesOf(file.complexTypes, el) : el \in Range(file.elements)},
                             Len(file.complexTypes)) :
        t \in reachableTypes(file.complexTypes, typeRefs(file.complexTypes, t), Len(file.complexTypes))

----------------------------------------------------------------------------
(* The expansion tree of a schema *)

RECURSIVE joinSlash(_)
joinSlash(names) ==
  IF Len(names) = 1 THEN names[1]
  ELSE joinSlash(SubSeq(names, 1, Len(names) - 1)) \o "/" \o Last(names)

\* the element occurrences under (and including) el, parents before children and
\* children in declaration order; each with the chain of element names that leads to it
RECURSIVE expansion(_, _, _)
expansion(cts, el, chain) ==
  LET here == Append(chain, elNameOf(el))
      ct   == ctOf(cts, el)
      kids == IF ct = <<>> THEN <<>> ELSE childElements(ct[1])
  IN  <<[chain |-> here, el |-> el, resolved |-> ct # <<>>, nKids |-> Len(kids)]>>
      \o Flatten([k \in 1..Len(kids) |-> expansion(cts, kids[k], here)])

expansionOf(file) ==
  Flatten([g \in 1..Len(file.elements) |-> expansion(file.complexTypes, file.elements[g], <<>>)])

\* every root element of the current file has been walked and every call has returned
walkOver == pc = "walk" /\ stack = <<>> /\ gelIdx > Len(curFile.elements)

stackOverflowed == pc = "done" /\ res.message = "Maximum call stack size exceeded"

\* C11: on a schema without a cyclic type reference the walk ends by returning to
\* parseXsdPaths, never by exhausting the call stack, and when it has ended walk()
\* has been called once on each element occurrence of the expansion tree, parents
\* before children.
C11_AcyclicWalkReturns ==
  /\ []((walkOver /\ ~isCyclic(curFile)) =>
          visits = [k \in 1..Len(expansionOf(curFile)) |-> joinSlash(expansionOf(curFile)[k].chain)])
  /\ [](stackOverflowed => isCyclic(curFile))
  /\ (pc = "walk" /\ ~isCyclic(curFile)) ~> (pc = "flatten")

\* C11 witness: the walk of an acyclic schema with nested named types is over
C11_Witness ==
  /\ walkOver
  /\ ~isCyclic(curFile)
  /\ Len(visits) >= 5
  /\ \E k \in 1..Len(expansionOf(curFile)) : Len(expansionOf(curFile)[k].chain) = 3

----------------------------------------------------------------------------
(* The join of the assembly *)

\* the dictionary entries whose path is exactly the given one
entriesAt(path) == {k \in 1..Len(targetDict) : targetDict[k].path = path}

\* C12: every assembled row carries the schema, type and occurs of a dictionary
\* entry whose path equals its SuggestedTargetPath, and a row whose path no
\* entry has (a backfilled row among them) carries the empty string in all three.
C12_JoinByExactPath ==
  Assembled =>
    \A k \in 1..Len(bySource) :
      LET row == bySource[k]
      IN  IF entriesAt(row.SuggestedTargetPath) = {}
          THEN row.TargetSchema = "" /\ row.TargetType = "" /\ row.Occurs = ""
          ELSE \E e \in entriesAt(row.SuggestedTargetPath) :
                 /\ row.TargetSchema = targetDict[e].schema
                 /\ row.TargetType = targetDict[e].type
                 /\ row.Occurs = targetDict[e].minOccurs \o ".." \o targetDict[e].maxOccurs


----------------------------------------------------------------------------
(* The leaf policy *)

\* the occurrences of the expansion tree without a resolved complex type or
\* whose complex type has no child element
leavesOf(file) == SelectSeq(expansionOf(file), LAMBDA n : ~n.resolved \/ n.nKids = 0)

leafPathsOf(file) == [k \in 1..Len(leavesOf(file)) |-> joinSlash(leavesOf(file)[k].chain)]

\* the entries parseXsdPaths hands back for the current file, on the step that returns them
returnedEntries == SubSeq(targetDict', Len(targetDict) + 1, Len(targetDict'))

invoiceEntries ==
  << [schema |-> "invoice.xsd", path |-> "Invoice/Id", name |-> "Id", type |-> "string",
      minOccurs |-> "1", maxOccurs |-> "1"],
     [schema |-> "invoice.xsd", path |-> "Invoice/Total", name |-> "Total", type |-> "decimal",
      minOccurs |-> "0", maxOccurs |-> "1"] >>

\* C13: when the walk of a file is over, the rows are the leaf occurrences of the
\* expansion tree in walk order, one row per leaf and none for an element with
\* children, each with the slash-joined chain of element names as its path; the
\* entries parseXsdPaths returns have exactly the leaves' paths; and the Invoice
\* schema of the scenario yields its two entries.
C13_LeavesOnly ==
  /\ []((walkOver /\ ~isCyclic(curFile)) =>
          /\ [k \in 1..Len(rows) |-> rows[k].path] = leafPathsOf(curFile)
          /\ \A k \in 1..Len(rows) : rows[k].name = Last(leavesOf(curFile)[k].chain)
          /\ (curFile = InvoiceXsd => rows = invoiceEntries))
  /\ [][(walkOver /\ ~isCyclic(curFile) /\ pc' = "flatten") =>
          {returnedEntries[k].path : k \in 1..Len(returnedEntries)} = Range(leafPathsOf(curFile))]_vars

\* C13 witness: the walk is over for a schema with elements that have children,
\* a leaf without a complex type and a leaf whose complex type is childless
C13_Witness ==
  /\ walkOver
  /\ ~isCyclic(curFile)
  /\ \E n \in Range(expansionOf(curFile)) : n.resolved /\ n.nKids > 0
  /\ \E k \in 1..Len(rows) : leavesOf(curFile)[k].resolved /\ rows[k].path = "Blank"
  /\ \E k \in 1..Len(rows) : ~leavesOf(curFile)[k].resolved /\ rows[k].path = "Order/Line/Qty"


----------------------------------------------------------------------------
(* The colour stops *)

\* '#F8696B'
LowStop == <<15, 8, 6, 9, 6, 11>>

\* '#FFEB84'
MidStop == <<15, 15, 14, 11, 8, 4>>

\* '#63BE7B'
HighStop == <<6, 3, 11, 14, 7, 11>>

\* C14: colorForScore returns the low stop at 0, the mid stop at 0.5 and the high
\* stop at 1, the colour of 0 for every score below 0 and the colour of 1 for every
\* score above 1, and a second call on the same score returns the same colour.
C14_StopsAndClamp ==
  \A k \in 1..Len(colorOut) :
    /\ colorArg = Fin(0) => colorOut[k] = LowStop
    /\ colorArg = Fin(50) => colorOut[k] = MidStop
    /\ colorArg = Fin(100) => colorOut[k] = HighStop
    /\ JsLess(colorArg, Fin(0)) => colorOut[k] = LowStop
    /\ JsLess(Fin(100), colorArg) => colorOut[k] = HighStop
    /\ colorOut[k] = colorOut[1]

\* C14 witness: colorForScore has been called twice on a score above 1
C14_Witness ==
  /\ pc = "color"
  /\ Len(colorOut) = 2
  /\ colorArg = Fin(100 + MaxBeyond)


----------------------------------------------------------------------------
(* Rejected requests *)

\* no schema file, no source file, or a format selection other than xlsx, html or both
invalidRequest ==
  \/ req.xsd_files = <<>>
  \/ ~req.source_file.present
  \/ outputFormat \notin {"xlsx", "html", "both"}

\* nothing has been read, flattened or sent to the oracle
untouched ==
  /\ sourceFields = <<>>
  /\ visits = <<>> /\ rows = <<>> /\ targetDict = <<>>
  /\ calls = <<>> /\ inflight = 0 /\ reply = NoReply
  /\ results = <<>> /\ bySource = <<>> /\ byScore = <<>>

\* C15: a request without a schema file, without a source file or with a format
\* other than xlsx, html or both is only ever answered with a failure status and a
\* message; the source file is never read, no schema is flattened, no oracle call
\* is made and no report is produced.
C15_InvalidRequestRejected ==
  invalidRequest =>
    /\ pc \in {"start", "done"}
    /\ untouched
    /\ noReport
    /\ pc = "start" => (res = NoResponse /\ ENABLED Reject /\ ~ENABLED ReadSource)
    /\ pc = "done" => (res.status >= 400 /\ res.message # "" /\ res.body = "text")

\* C15 witness: a request with a valid format and a source file but no schema file has been answered
C15_Witness ==
  /\ pc = "done"
  /\ req.xsd_files = <<>> /\ req.source_file.present /\ outputFormat = "xlsx"
  /\ res.status = 400
  /\ res.message = "At least one xsd_files required"


----------------------------------------------------------------------------
(* One path in two schemas *)

\* the dictionary has been merged and deduplicated
Merged == pc \in {"batch", "await", "parse", "assemble", "sort", "respond"} \/ (pc = "done" /\ res.status = 200)

\* the schema names of the dictionary entries at a path
schemasAt(path) == {targetDict[k].schema : k \in entriesAt(path)}

lastAt(path) == targetDict[CHOOSE k \in entriesAt(path) : \A h \in entriesAt(path) : h <= k]

\* the paths that both files declare as leaves
sharedPaths(f, g) == Range(leafPathsOf(f)) \cap Range(leafPathsOf(g))

\* C16: a path that two uploaded schemas both declare has an entry of each of them in
\* the merged dictionary, and every assembled row mapped to a path of the dictionary
\* carries the schema, type and occurs of the last entry with that path.
C16_LastEntryOfPathWins ==
  /\ Merged =>
       \A f, g \in Range(req.xsd_files) :
         f.originalname # g.originalname =>
           \A p \in sharedPaths(f, g) : {f.originalname, g.originalname} \subseteq schemasAt(p)
  /\ Assembled =>
       \A k \in 1..Len(bySource) :
         entriesAt(bySource[k].SuggestedTargetPath) # {} =>
           LET e == lastAt(bySource[k].SuggestedTargetPath)
           IN  /\ bySource[k].TargetSchema = e.schema
               /\ bySource[k].TargetType = e.type
               /\ bySource[k].Occurs = e.minOccurs \o ".." \o e.maxOccurs


====
